---- MODULE Spec2Model ----
(***************************************************************************)
(* Model of the Workbench component (spectrogram surface, zoom controller, *)
(* annotation draw state machine) of the audio annotator.                  *)
(*                                                                         *)
(* JavaScript numbers are modelled as exact rationals [n, d] in lowest     *)
(* terms with d > 0; NaN is the record with d = 0.  The value `undefined`  *)
(* of currentZoom (an out-of-range array read) is the integer Undefined.   *)
(***************************************************************************)
EXTENDS Integers, Sequences, FiniteSets, TLC

(***************************************************************************)
(* Program constants                                                       *)
(***************************************************************************)
CANVAS_HEIGHT == 512
CANVAS_WIDTH == 1813
\* literal of the zoom-in guard `oldZoomIdx < 4`
ZoomCap == 4
\* literal of the drag guards `drawPxMove > 2`
DrawThreshold == 2

(***************************************************************************)
(* Bounds of the model                                                     *)
(***************************************************************************)
\* largest pyramid depth k of a configuration (2^k - 1 URLs)
MaxK == 6
\* pointer-move events delivered to one drag
MaxMoves == 3
\* saturation of the count of consecutive zoom(+1) requests
MaxRun == 6
\* annotations the list of the host holds at most
MaxAnnotations == 2
\* largest id saveAnnotation gives
MaxId == 3

(***************************************************************************)
(* Numbers                                                                 *)
(***************************************************************************)
NaN == [n |-> 0, d |-> 0]
Undefined == -1

Abs(x) == IF x < 0 THEN -x ELSE x

RECURSIVE GCD(_, _)
GCD(a, b) == IF b = 0 THEN a ELSE GCD(b, a % b)

IsNaN(a) == a.d = 0

Norm(n, d) ==
  IF d = 0 THEN NaN
  ELSE LET g == GCD(Abs(n), Abs(d))
           s == IF d < 0 THEN -1 ELSE 1
       IN  [n |-> (s * n) \div g, d |-> (s * d) \div g]

Num(i) == [n |-> i, d |-> 1]

\* the number a zoom factor converts to in arithmetic (undefined -> NaN)
ZoomNum(z) == IF z = Undefined THEN NaN ELSE Num(z)

LCM(a, b) == (a \div GCD(a, b)) * b

\* sums and comparisons over the common denominator, products after
\* cancelling common factors, so that intermediate values stay small
NumAdd(a, b) ==
  IF IsNaN(a) \/ IsNaN(b) THEN NaN
  ELSE LET l == LCM(a.d, b.d) IN Norm(a.n * (l \div a.d) + b.n * (l \div b.d), l)
NumNeg(a) == IF IsNaN(a) THEN NaN ELSE [n |-> -a.n, d |-> a.d]
NumSub(a, b) == NumAdd(a, NumNeg(b))
NumMul(a, b) ==
  IF IsNaN(a) \/ IsNaN(b) THEN NaN
  ELSE LET g1 == GCD(Abs(a.n), b.d)
           g2 == GCD(Abs(b.n), a.d)
       IN  Norm((a.n \div g1) * (b.n \div g2), (a.d \div g2) * (b.d \div g1))
\* divisors are pixel ratios, which are positive or NaN
NumDiv(a, b) == IF IsNaN(a) \/ IsNaN(b) THEN NaN ELSE NumMul(a, Norm(b.d, b.n))

\* comparisons with NaN are false, as ===, <, <= are in JavaScript
NumEq(a, b) == ~IsNaN(a) /\ ~IsNaN(b) /\ a = b
NumLeq(a, b) ==
  /\ ~IsNaN(a) /\ ~IsNaN(b)
  /\ LET l == LCM(a.d, b.d) IN a.n * (l \div a.d) <= b.n * (l \div b.d)
NumLt(a, b) == NumLeq(a, b) /\ a # b

MathMin(a, b) == IF IsNaN(a) \/ IsNaN(b) THEN NaN ELSE IF NumLeq(a, b) THEN a ELSE b
MathMax(a, b) == IF IsNaN(a) \/ IsNaN(b) THEN NaN ELSE IF NumLeq(a, b) THEN b ELSE a
MathFloor(a) == IF IsNaN(a) THEN NaN ELSE Num(a.n \div a.d)

\* assignment to canvas.width (an unsigned long): NaN becomes 0
ToUnsignedLong(a) == IF IsNaN(a) \/ a.n < 0 THEN 0 ELSE a.n \div a.d

RECURSIVE Pow2(_)
Pow2(i) == IF i = 0 THEN 1 ELSE 2 * Pow2(i - 1)

\* Math.log2(m) when it is an integer, NotInteger otherwise
NotInteger == -1
RECURSIVE MathLog2(_)
MathLog2(m) ==
  IF m = 1 THEN 0
  ELSE IF m < 1 \/ m % 2 # 0 THEN NotInteger
  ELSE LET r == MathLog2(m \div 2) IN IF r = NotInteger THEN NotInteger ELSE r + 1

(***************************************************************************)
(* Rounding of double-precision numbers.  A product a * b that is an       *)
(* integer P in the reals is computed as a * fl(b), where fl(b) is the     *)
(* double nearest to b, and rounded again; Math.floor of it is P - 1 when  *)
(* the result lies below P.  Here a is a number the doubles hold exactly   *)
(* (an integer divided by a power of two).                                 *)
(***************************************************************************)
\* floor(log2(n / d)) of a positive quotient
RECURSIVE Log2Floor(_, _)
Log2Floor(n, d) ==
  IF n >= 2 * d THEN Log2Floor(n, 2 * d) + 1
  ELSE IF n < d THEN Log2Floor(2 * n, d) - 1
  ELSE 0

\* long division: the remainder r after `bits` more bits of the quotient,
\* and whether the last bit was 1
RECURSIVE DivideBits(_, _, _, _)
DivideBits(r, d, bits, odd) ==
  IF bits = 0 THEN [r |-> r, odd |-> odd]
  ELSE IF 2 * r >= d THEN DivideBits(2 * r - d, d, bits - 1, TRUE)
  ELSE DivideBits(2 * r, d, bits - 1, FALSE)

\* b = (n / d) * 2^L with n / d in [1, 2): the 53-bit significand of fl(b)
\* is the quotient of n / d to 52 fractional bits, rounded to nearest, ties
\* to even.  The result is how far fl(b) lies below b, as r in
\* b - fl(b) = (r / d) * 2^(L - 52); it is 0 when fl(b) >= b.
RoundingLoss(b) ==
  LET L == Log2Floor(b.n, b.d)
      n == IF L >= 0 THEN b.n ELSE b.n * Pow2(-L)
      d == IF L >= 0 THEN b.d * Pow2(L) ELSE b.d
      q == DivideBits(n - d, d, 52, TRUE)
  IN  [L |-> L, d |-> d,
       r |-> IF 2 * q.r < d \/ (2 * q.r = d /\ ~q.odd) THEN q.r ELSE 0]

\* Math.floor(a * b): a * fl(b) = P - a * (r / d) * 2^(L - 52) rounds to a
\* double below P when it is more than half a unit in the last place below
\* P, which is 2^(g - 53) for P in (2^g, 2^(g + 1)) and 2^(g - 54) for
\* P = 2^g
FloorOfProduct(a, b) ==
  LET P == NumMul(a, b)
  IN  IF IsNaN(P) THEN NaN
      ELSE IF P.d # 1 \/ P.n <= 0 THEN MathFloor(P)
      ELSE LET loss == RoundingLoss(b)
               g == Log2Floor(P.n, 1)
               k == loss.L + 1 - g + (IF P.n = Pow2(g) THEN 1 ELSE 0)
               below == IF k >= 0
                        THEN a.n * loss.r * Pow2(k) > loss.d * a.d
                        ELSE a.n * loss.r > loss.d * a.d * Pow2(-k)
           IN  IF below THEN Num(P.n - 1) ELSE P

(***************************************************************************)
(* Inputs: the props the host application passes to the component          *)
(***************************************************************************)
Durations == {45}
StartFrequencies == {100}
FrequencyRanges == {1024}

\* URLs are sequences of characters: /s/a_0.0_45.0.p has the form
\* prefix/basename_<start>_<end>.ext, the others lack the directory, the
\* time range, or the extension
TileUrl == <<"/", "s", "/", "a", "_", "0", ".", "0", "_", "4", "5", ".", "0", ".", "p">>
OtherUrls ==
  {<<"a", "_", "0", ".", "0", "_", "4", "5", ".", "0", ".", "p">>,
   <<"/", "s", "/", "a", ".", "p">>,
   <<"/", "s", "/", "a", "_", "0", "_", "4", "5">>}

\* the URL list of a configuration: its length and its first entry (an
\* empty list has none)
Urls(count, first) == [count |-> count, first |-> IF count = 0 THEN << >> ELSE first]

ConfUrl(res, count, first) ==
  [nfft |-> res, winsize |-> res, overlap |-> res, urls |-> Urls(count, first)]

Conf(res, count) == ConfUrl(res, count, TileUrl)

\* URL counts of the form 2^k - 1: a shallow pyramid and one of more than
\* five levels
PyramidCounts == {Pow2(k) - 1 : k \in {2, MaxK}}

SpectroUrlsParamsChoices ==
  {<< >>}
    \cup {<<Conf(1024, c)>> : c \in PyramidCounts}
    \cup {<<Conf(1024, 1), Conf(2048, 7)>>}
    \cup {<<Conf(1024, 0)>>, <<Conf(1024, 2)>>}

\* pointer positions <<clientX, clientY>> of the events: above and left of
\* the surface, two points inside it, below and right of it
PointerPositions ==
  {<<30, 75>>, <<135, 380>>, <<1035, 208>>, <<40035, 680>>}
WheelDeltas == {-100, -1, 0, 1}

(***************************************************************************)
(* State                                                                   *)
(***************************************************************************)
VARIABLES
  phase,               \* "constructed", "mounted", "unmounted", "crashed"
  props,               \* duration, startFrequency, frequencyRange, spectroUrlsParams,
                       \* annotations (the list of the host), onAnnotationCreated
  wrapperWidth,        \* this.state.wrapperWidth
  timePxRatio,         \* this.state.timePxRatio
  freqPxRatio,         \* this.state.freqPxRatio
  currentParams,       \* this.state.currentParams
  currentZoom,         \* this.state.currentZoom
  spectrograms,        \* this.state.spectrograms
  newAnnotation,       \* this.state.newAnnotation: << >> (undefined) or <<annotation>>
  isDrawing,           \* this.isDrawing
  drawPxMove,          \* this.drawPxMove
  drawStartTime,       \* this.drawStartTime
  drawStartFrequency,  \* this.drawStartFrequency
  canvasWidth,         \* canvas.width of the drawing surface
  timeAxisWidth,       \* canvas.width of the time axis
  listeners,           \* handlers registered on the document
  imagesLoaded,        \* tiles <<level, index>> whose image has loaded
  imagesFailed,        \* tiles <<level, index>> whose image load has failed
  brokenImageThrows,   \* the browser's drawImage throws for a failed image
  drawnDraft,          \* rectangle stroked by the last renderCanvas: << >> or <<rect>>
  drawnTiles,          \* the drawImage calls of the last renderCanvas
  timeAxis,            \* the steps chosen by the last renderTimeAxis: << >> or <<steps>>
  raised,              \* observation: the error the last event raised, or "none"
  lastEvent,           \* observation: the last event and the zoom requests it made
  gesture,             \* observation: the current pointer gesture on the surface
  zoomInRun            \* observation: consecutive zoom(+1) requests since index 0

vars == <<phase, props, wrapperWidth, timePxRatio, freqPxRatio, currentParams,
          currentZoom, spectrograms, newAnnotation, isDrawing, drawPxMove,
          drawStartTime, drawStartFrequency, canvasWidth, timeAxisWidth,
          listeners, imagesLoaded, imagesFailed, brokenImageThrows, drawnDraft,
          drawnTiles, timeAxis, raised, lastEvent, gesture, zoomInRun>>

stateVars == <<wrapperWidth, timePxRatio, freqPxRatio, currentParams,
               currentZoom, spectrograms, newAnnotation>>
dragVars == <<isDrawing, drawPxMove, drawStartTime, drawStartFrequency>>
imageVars == <<imagesLoaded, imagesFailed, brokenImageThrows>>

(***************************************************************************)
(* Tile pyramid builder                                                    *)
(***************************************************************************)
\* variant: the tile index starts at 1
Images_shifted(zoom, duration) ==
  LET step == NumDiv(Num(duration), Num(zoom))
  IN  [i \in 1..zoom |-> [start |-> NumMul(Num(i), step),
                          end |-> NumMul(Num(i + 1), step)]]

\* the tiles of one zoom level: [...Array(zoom)].map((_, i) => ...)
Images(zoom, duration) ==
  LET step == NumDiv(Num(duration), Num(zoom))
  IN  [i \in 1..zoom |-> [start |-> NumMul(Num(i - 1), step),
                          end |-> NumMul(Num(i), step)]]

\* the characters of the class [\d.]
DigitsAndDot == {"0", "1", "2", "3", "4", "5", "6", "7", "8", "9", "."}

\* url.match(/(.*\/)(.*)_[\d.]*_[\d.]*(\..*)/): the first group is url[1..p],
\* the second url[p+1..q], the two numbers url[q+2..a] and url[a+2..b], the
\* third group url[b+1..]; MatchB, MatchA, MatchQ, MatchP are the values of
\* b, a, q, p for which the rest of the pattern matches
MatchB(url, a) ==
  {b \in (a + 1)..(Len(url) - 1) :
     /\ url[b + 1] = "."
     /\ \A i \in (a + 2)..b : url[i] \in DigitsAndDot}
MatchA(url, q) ==
  {a \in (q + 1)..(Len(url) - 1) :
     /\ url[a + 1] = "_"
     /\ \A i \in (q + 2)..a : url[i] \in DigitsAndDot
     /\ MatchB(url, a) # {}}
MatchQ(url, p) ==
  {q \in p..(Len(url) - 1) : url[q + 1] = "_" /\ MatchA(url, q) # {}}
MatchP(url) ==
  {p \in 1..Len(url) : url[p] = "/" /\ MatchQ(url, p) # {}}

Longest(S) == CHOOSE m \in S : \A x \in S : x <= m

\* the quantifiers are greedy: each takes the longest stretch that lets the
\* rest match; the result is << >> (null) or the three groups
match(url) ==
  IF MatchP(url) = {} THEN << >>
  ELSE LET p == Longest(MatchP(url))
           q == Longest(MatchQ(url, p))
           a == Longest(MatchA(url, q))
           b == Longest(MatchB(url, a))
       IN  <<SubSeq(url, 1, p), SubSeq(url, p + 1, q), SubSeq(url, b + 1, Len(url))>>

\* variant: a first URL that does not match the pattern is an error too
ConfThrows_strict(conf) ==
  \/ conf.urls.count = 0
  \/ match(conf.urls.first) = << >>
  \/ MathLog2(conf.urls.count + 1) = NotInteger

\* conf.urls[0].match of an empty list and Array(n) of a non-integer throw
ConfThrows(conf) ==
  \/ conf.urls.count = 0
  \/ MathLog2(conf.urls.count + 1) = NotInteger

\* the error the builder throws for a configuration
ConfError(conf) == IF conf.urls.count = 0 THEN "TypeError" ELSE "RangeError"

\* the levels built for one configuration; '' is the empty sequence
ConfDetails(conf, duration) ==
  LET urlParts == match(conf.urls.first)
      nbZooms == MathLog2(conf.urls.count + 1)
  IN  [j \in 1..nbZooms |->
         [nfft |-> conf.nfft, winsize |-> conf.winsize, overlap |-> conf.overlap,
          urlPrefix |-> IF urlParts # << >> THEN urlParts[1] ELSE << >>,
          urlFileName |-> IF urlParts # << >> THEN urlParts[2] ELSE << >>,
          urlFileExtension |-> IF urlParts # << >> THEN urlParts[3] ELSE << >>,
          zoom |-> Pow2(j - 1), images |-> Images(Pow2(j - 1), duration)]]

RECURSIVE FlatMapDetails(_, _)
FlatMapDetails(params, duration) ==
  IF params = << >> THEN << >>
  ELSE ConfDetails(Head(params), duration) \o FlatMapDetails(Tail(params), duration)

\* the result of the builder, or the error of the first configuration that
\* makes it throw
buildSpectrogramsDetails(params, duration) ==
  IF \E i \in 1..Len(params) : ConfThrows(params[i])
  THEN LET first == CHOOSE i \in 1..Len(params) :
                      /\ ConfThrows(params[i])
                      /\ \A j \in 1..(i - 1) : ~ConfThrows(params[j])
       IN  [throws |-> TRUE, error |-> ConfError(params[first]), details |-> << >>]
  ELSE [throws |-> FALSE, error |-> "none", details |-> FlatMapDetails(params, duration)]

(***************************************************************************)
(* Coordinate transform                                                    *)
(***************************************************************************)
\* canvas.getBoundingClientRect(): the surface lies at (35, 80) of the
\* viewport and is as wide as its bitmap
bounds ==
  [left |-> 35, right |-> 35 + canvasWidth, top |-> 80, bottom |-> 80 + CANVAS_HEIGHT]

\* variant: the left edge of the surface is not subtracted
timeOffset_client(clientX) ==
  IF clientX < bounds.left THEN 0
  ELSE IF clientX > bounds.right THEN canvasWidth
  ELSE clientX

\* offset: nb of pixels from the axis (left)
timeOffset(clientX) ==
  IF clientX < bounds.left THEN 0
  ELSE IF clientX > bounds.right THEN canvasWidth
  ELSE clientX - bounds.left

getTimeFromClientX(clientX) == NumDiv(Num(timeOffset(clientX)), timePxRatio)

\* variant: the offset is not clamped to the surface
frequencyOffset_unclamped(clientY) == bounds.bottom - clientY

\* offset: nb of pixels from the axis (bottom)
frequencyOffset(clientY) ==
  IF clientY < bounds.top THEN CANVAS_HEIGHT
  ELSE IF clientY > bounds.bottom THEN 0
  ELSE bounds.bottom - clientY

getFrequencyFromClientY(clientY) ==
  NumAdd(Num(props.startFrequency), NumDiv(Num(frequencyOffset(clientY)), freqPxRatio))

(***************************************************************************)
(* Renderer                                                                *)
(***************************************************************************)
\* the draft rectangle stroked by renderCanvas
renderCanvas(draft, tRatio, fRatio) ==
  IF draft = << >> THEN << >>
  ELSE LET ann == draft[1]
       IN  <<[x |-> MathFloor(NumMul(ann.startTime, tRatio)),
              y |-> MathFloor(NumSub(Num(CANVAS_HEIGHT), NumMul(ann.startFrequency, fRatio))),
              width |-> MathFloor(NumMul(NumSub(ann.endTime, ann.startTime), tRatio)),
              height |-> NumNeg(MathFloor(NumMul(NumSub(ann.endFrequency, ann.startFrequency), fRatio)))]>>

\* variant: the test of the tile is `spectro.image` alone
complete_always(tile, loaded) == TRUE

\* image.complete: the load has ended, with the image or with an error
complete(tile, loaded) == tile \in loaded \cup imagesFailed

SameParams(details) ==
  /\ currentParams.nfft = details.nfft
  /\ currentParams.winsize = details.winsize
  /\ currentParams.overlap = details.overlap

\* variant: the first level of the active resolution, whatever its factor
drawnLevel_anyZoom(specs, zoomFactor) ==
  LET found == {l \in 1..Len(specs) : SameParams(specs[l])}
  IN  IF found = {} THEN 0 ELSE CHOOSE l \in found : \A m \in found : l <= m

\* getCurrentDetails().find(details => details.zoom === currentZoom): the
\* index in specs of the level renderCanvas draws, 0 for undefined
drawnLevel(specs, zoomFactor) ==
  LET found == {l \in 1..Len(specs) :
                  SameParams(specs[l]) /\ specs[l].zoom = zoomFactor}
  IN  IF found = {} THEN 0 ELSE CHOOSE l \in found : \A m \in found : l <= m

\* the drawImage calls of the forEach over the tiles of the drawn level,
\* each with the state of the image it passes
drawImageCalls(specs, zoomFactor, tRatio, loaded) ==
  LET l == drawnLevel(specs, zoomFactor)
  IN  IF l = 0 THEN << >>
      ELSE LET drawn == SelectSeq([i \in 1..Len(specs[l].images) |-> i],
                                  LAMBDA i : complete(<<l, i>>, loaded))
           IN  [k \in 1..Len(drawn) |->
                  LET spectro == specs[l].images[drawn[k]]
                  IN  [level |-> l, tile |-> drawn[k],
                       x |-> NumMul(spectro.start, tRatio),
                       width |-> FloorOfProduct(NumSub(spectro.end, spectro.start), tRatio),
                       image |-> IF <<l, drawn[k]>> \in loaded THEN "loaded"
                                 ELSE IF <<l, drawn[k]>> \in imagesFailed THEN "failed"
                                 ELSE "loading"]]

\* the position of the call at which drawImage throws (the first failed
\* image, where the browser throws for one), 0 when no call throws
throwsAt(calls) ==
  LET failed == {k \in 1..Len(calls) : calls[k].image = "failed"}
  IN  IF brokenImageThrows /\ failed # {}
      THEN CHOOSE k \in failed : \A m \in failed : k <= m
      ELSE 0

\* the calls made before the forEach ends or is left by an exception
callsMade(calls) ==
  IF throwsAt(calls) = 0 THEN calls ELSE SubSeq(calls, 1, throwsAt(calls))

\* variant: the comparisons of the step selection are strict
renderTimeAxis_strict(width, tRatio) ==
  LET durationOnScreen == NumDiv(Num(width), tRatio)
  IN  IF NumLt(durationOnScreen, Num(60))
      THEN [durationOnScreen |-> durationOnScreen, step |-> 1, bigStep |-> 5]
      ELSE IF NumLt(Num(60), durationOnScreen) /\ NumLt(durationOnScreen, Num(120))
      THEN [durationOnScreen |-> durationOnScreen, step |-> 2, bigStep |-> 5]
      ELSE IF NumLt(Num(120), durationOnScreen) /\ NumLt(durationOnScreen, Num(240))
      THEN [durationOnScreen |-> durationOnScreen, step |-> 4, bigStep |-> 5]
      ELSE [durationOnScreen |-> durationOnScreen, step |-> 10, bigStep |-> 6]

\* the step and the big step of the time axis, in seconds
renderTimeAxis(width, tRatio) ==
  LET durationOnScreen == NumDiv(Num(width), tRatio)
  IN  IF NumLeq(durationOnScreen, Num(60))
      THEN [durationOnScreen |-> durationOnScreen, step |-> 1, bigStep |-> 5]
      ELSE IF NumLt(Num(60), durationOnScreen) /\ NumLeq(durationOnScreen, Num(120))
      THEN [durationOnScreen |-> durationOnScreen, step |-> 2, bigStep |-> 5]
      ELSE IF NumLt(Num(120), durationOnScreen) /\ NumLeq(durationOnScreen, Num(240))
      THEN [durationOnScreen |-> durationOnScreen, step |-> 4, bigStep |-> 5]
      ELSE [durationOnScreen |-> durationOnScreen, step |-> 10, bigStep |-> 6]

\* componentDidUpdate after a setState, reading the new state: renderCanvas,
\* then renderTimeAxis.  An exception of drawImage leaves it; the host has
\* no error boundary, so React removes the component, whose
\* componentWillUnmount runs.  Without one the component stays in nextPhase
\* with nextListeners.
componentDidUpdate(nextPhase, nextListeners) ==
  LET calls == drawImageCalls(spectrograms', currentZoom', timePxRatio', imagesLoaded)
  IN  /\ drawnTiles' = callsMade(calls)
      /\ IF throwsAt(calls) = 0
         THEN /\ drawnDraft' = renderCanvas(newAnnotation', timePxRatio', freqPxRatio)
              /\ timeAxis' = <<renderTimeAxis(wrapperWidth, timePxRatio')>>
              /\ phase' = nextPhase
              /\ listeners' = nextListeners
              /\ raised' = "none"
         ELSE /\ drawnDraft' = << >>
              /\ timeAxis' = timeAxis
              /\ phase' = "crashed"
              /\ listeners' = nextListeners \ {"pointermove", "pointerup"}
              /\ raised' = "InvalidStateError"

\* a handler that does not call setState
NoUpdate ==
  /\ UNCHANGED <<phase, listeners, drawnDraft, drawnTiles, timeAxis>>
  /\ raised' = "none"

(***************************************************************************)
(* Construction                                                            *)
(***************************************************************************)
\* phase: "none", "down" (pointer-down seen), "up" (ended by a pointer-up),
\* "aborted" (the component was unmounted); moves: pointer-moves since the
\* pointer-down; calls, created: the onAnnotationCreated calls and the last
\* annotation passed; down, up: the two points in seconds and Hz; upPx: the
\* pointer-up point in pixels from the left and the bottom of the surface;
\* phase "clicked": the click event of the gesture was delivered; seeks,
\* seekTime: the onSeek calls and the time passed
NoGesture == [phase |-> "none", moves |-> 0, calls |-> 0,
              down |-> <<NaN, NaN>>, up |-> <<NaN, NaN>>, upPx |-> <<0, 0>>,
              created |-> << >>, seeks |-> 0, seekTime |-> NaN]

\* the observation of a gesture lasts until the event after its end
Settle(g) == IF g.phase \in {"up", "clicked", "aborted"} THEN NoGesture ELSE g

Event(type, arg, zoomCalls) == [type |-> type, arg |-> arg, zoomCalls |-> zoomCalls]

\* the component after its constructor, for props of the given durations
\* and configurations, in a browser of one of the given behaviours; the
\* host passes its list of annotations, empty at first, and one of the
\* given callbacks as onAnnotationCreated
ConstructedIn(hosts, durations, choices, browsers) ==
  /\ phase = "constructed"
  /\ props \in [duration : durations, startFrequency : StartFrequencies,
                frequencyRange : FrequencyRanges,
                spectroUrlsParams : choices,
                annotations : {<< >>},
                onAnnotationCreated : hosts]
  /\ wrapperWidth = CANVAS_WIDTH
  /\ timePxRatio = NumDiv(Num(CANVAS_WIDTH), Num(props.duration))
  /\ freqPxRatio = NumDiv(Num(CANVAS_HEIGHT), Num(props.frequencyRange))
  /\ currentParams =
       IF Len(props.spectroUrlsParams) > 0
       THEN [nfft |-> props.spectroUrlsParams[1].nfft,
             winsize |-> props.spectroUrlsParams[1].winsize,
             overlap |-> props.spectroUrlsParams[1].overlap, zoom |-> 1]
       ELSE [nfft |-> 1, winsize |-> 1, overlap |-> 1, zoom |-> 1]
  /\ currentZoom = 1
  /\ spectrograms = << >>
  /\ newAnnotation = << >>
  /\ isDrawing = FALSE
  /\ drawPxMove = 0
  /\ drawStartTime = Num(0)
  /\ drawStartFrequency = Num(0)
  /\ canvasWidth = CANVAS_WIDTH
  /\ timeAxisWidth = CANVAS_WIDTH
  /\ listeners = {}
  /\ imagesLoaded = {}
  /\ imagesFailed = {}
  /\ brokenImageThrows \in browsers
  /\ drawnDraft = << >>
  /\ drawnTiles = << >>
  /\ timeAxis = << >>
  /\ raised = "none"
  /\ lastEvent = Event("construct", 0, << >>)
  /\ gesture = NoGesture
  /\ zoomInRun = 0

\* the component under a host whose onAnnotationCreated keeps no list
Constructed(durations, choices, browsers) ==
  ConstructedIn({"none"}, durations, choices, browsers)

Init == Constructed(Durations, SpectroUrlsParamsChoices, {TRUE})

(***************************************************************************)
(* Mount and unmount                                                       *)
(***************************************************************************)
componentDidMount ==
  /\ phase = "constructed"
  /\ UNCHANGED <<props, wrapperWidth, timePxRatio, freqPxRatio, currentParams,
                 currentZoom, newAnnotation, dragVars, canvasWidth,
                 timeAxisWidth, gesture, zoomInRun, imageVars>>
  /\ LET built == buildSpectrogramsDetails(props.spectroUrlsParams, props.duration)
     IN  IF built.throws
         THEN /\ phase' = "crashed"
              /\ raised' = built.error
              /\ UNCHANGED <<spectrograms, listeners, drawnDraft, drawnTiles, timeAxis>>
         ELSE /\ spectrograms' = built.details
              /\ componentDidUpdate("mounted", listeners \cup {"pointermove", "pointerup"})
  /\ lastEvent' = Event("mount", 0, << >>)

\* variant: the document listeners are not removed
componentWillUnmount_leak ==
  /\ phase = "mounted"
  /\ phase' = "unmounted"
  /\ listeners' = listeners
  /\ lastEvent' = Event("unmount", 0, << >>)
  /\ gesture' = IF gesture.phase = "down"
                THEN [gesture EXCEPT !.phase = "aborted"]
                ELSE Settle(gesture)
  /\ raised' = "none"
  /\ UNCHANGED <<props, stateVars, dragVars, canvasWidth, timeAxisWidth,
                 drawnDraft, drawnTiles, timeAxis, zoomInRun, imageVars>>

componentWillUnmount ==
  /\ phase = "mounted"
  /\ phase' = "unmounted"
  /\ listeners' = listeners \ {"pointermove", "pointerup"}
  /\ lastEvent' = Event("unmount", 0, << >>)
  /\ gesture' = IF gesture.phase = "down"
                THEN [gesture EXCEPT !.phase = "aborted"]
                ELSE Settle(gesture)
  /\ raised' = "none"
  /\ UNCHANGED <<props, stateVars, dragVars, canvasWidth, timeAxisWidth,
                 drawnDraft, drawnTiles, timeAxis, zoomInRun, imageVars>>

(***************************************************************************)
(* Zoom controller                                                         *)
(***************************************************************************)
getCurrentDetails ==
  SelectSeq(spectrograms, LAMBDA details :
    /\ currentParams.nfft = details.nfft
    /\ currentParams.winsize = details.winsize
    /\ currentParams.overlap = details.overlap)

RECURSIVE Insert(_, _)
Insert(v, sorted) ==
  IF sorted = << >> THEN <<v>>
  ELSE IF v <= Head(sorted) THEN <<v>> \o sorted
  ELSE <<Head(sorted)>> \o Insert(v, Tail(sorted))

\* seq.sort((a, b) => a - b)
RECURSIVE SortAsc(_)
SortAsc(seq) == IF seq = << >> THEN << >> ELSE Insert(Head(seq), SortAsc(Tail(seq)))

\* the zoom factors of the active resolution, ascending
zoomLevels ==
  LET details == getCurrentDetails
  IN  SortAsc([i \in 1..Len(details) |-> details[i].zoom])

\* seq.findIndex(factor => factor === v): 0-based, -1 when absent
FindIndex(seq, v) ==
  IF \E i \in 1..Len(seq) : seq[i] = v
  THEN (CHOOSE i \in 1..Len(seq) : seq[i] = v /\ \A j \in 1..(i - 1) : seq[j] # v) - 1
  ELSE -1

\* seq[idx] of a 0-based index: undefined outside the array
At(seq, idx) == IF idx >= 0 /\ idx < Len(seq) THEN seq[idx + 1] ELSE Undefined

oldZoomIdx == FindIndex(zoomLevels, currentZoom)

\* variant: the zoom-in guard of the "free zoom" comment, without the cap
newZoom_free(direction) ==
  IF direction > 0 /\ oldZoomIdx < Len(zoomLevels) - 1 THEN At(zoomLevels, oldZoomIdx + 1)
  ELSE IF direction < 0 /\ oldZoomIdx > 0 THEN At(zoomLevels, oldZoomIdx - 1)
  ELSE currentZoom

\* the zoom factor zoom(direction) moves to
newZoom(direction) ==
  IF direction > 0 /\ oldZoomIdx < ZoomCap THEN At(zoomLevels, oldZoomIdx + 1)
  ELSE IF direction < 0 /\ oldZoomIdx > 0 THEN At(zoomLevels, oldZoomIdx - 1)
  ELSE currentZoom

\* variant: a zoom request ends the drag in progress
zoom_endsDrag(direction) ==
  LET z == newZoom(direction)
      width == NumMul(Num(wrapperWidth), ZoomNum(z))
  IN  /\ canvasWidth' = ToUnsignedLong(width)
      /\ timeAxisWidth' = ToUnsignedLong(width)
      /\ currentZoom' = z
      /\ timePxRatio' = NumDiv(width, Num(props.duration))
      /\ zoomInRun' =
           IF direction > 0
           THEN IF zoomInRun < 0 THEN zoomInRun
                ELSE IF zoomInRun < MaxRun THEN zoomInRun + 1 ELSE MaxRun
           ELSE IF FindIndex(zoomLevels, z) = 0 THEN 0 ELSE -1
      /\ gesture' = Settle(gesture)
      /\ isDrawing' = FALSE
      /\ UNCHANGED <<props, wrapperWidth, freqPxRatio, currentParams, spectrograms,
                     newAnnotation, drawPxMove, drawStartTime, drawStartFrequency,
                     imageVars>>
      /\ componentDidUpdate(phase, listeners)

\* zoom(direction): the new factor, the two canvas widths and the setState
zoom(direction) ==
  LET z == newZoom(direction)
      width == NumMul(Num(wrapperWidth), ZoomNum(z))
  IN  /\ canvasWidth' = ToUnsignedLong(width)
      /\ timeAxisWidth' = ToUnsignedLong(width)
      /\ currentZoom' = z
      /\ timePxRatio' = NumDiv(width, Num(props.duration))
      /\ zoomInRun' =
           IF direction > 0
           THEN IF zoomInRun < 0 THEN zoomInRun
                ELSE IF zoomInRun < MaxRun THEN zoomInRun + 1 ELSE MaxRun
           ELSE IF FindIndex(zoomLevels, z) = 0 THEN 0 ELSE -1
      /\ gesture' = Settle(gesture)
      /\ UNCHANGED <<props, wrapperWidth, freqPxRatio, currentParams,
                     spectrograms, newAnnotation, dragVars, imageVars>>
      /\ componentDidUpdate(phase, listeners)

\* the +/- buttons of the controls area
ZoomButton(direction) ==
  /\ phase = "mounted"
  /\ zoom(direction)
  /\ lastEvent' = Event("button", direction, <<direction>>)

\* variant: the two directions exchanged
onWheelZoom_swapped(deltaY) ==
  IF deltaY < 0 THEN <<-1>>
  ELSE IF deltaY > 0 THEN <<1>>
  ELSE << >>

\* the zoom requests a wheel event makes
onWheelZoom(deltaY) ==
  IF deltaY < 0 THEN <<1>>
  ELSE IF deltaY > 0 THEN <<-1>>
  ELSE << >>

\* a wheel event over the drawing surface
Wheel(deltaY) ==
  /\ phase = "mounted"
  /\ canvasWidth > 0
  /\ LET calls == onWheelZoom(deltaY)
     IN  /\ IF calls = << >>
            THEN /\ gesture' = Settle(gesture)
                 /\ UNCHANGED <<props, stateVars, dragVars, canvasWidth,
                                timeAxisWidth, zoomInRun, imageVars>>
                 /\ NoUpdate
            ELSE zoom(calls[1])
         /\ lastEvent' = Event("wheel", deltaY, calls)

(***************************************************************************)
(* Annotation store of the host                                            *)
(***************************************************************************)
\* An annotation of the list is a record of id (a string, modelled as the
\* sequence of its characters), annotation (the tag, '' when untagged),
\* the four bounds and active.
Digits == <<"0", "1", "2", "3", "4", "5", "6", "7", "8", "9">>

IsDigit(c) == \E v \in 1..10 : Digits[v] = c

DigitValue(c) == (CHOOSE v \in 1..10 : Digits[v] = c) - 1

\* (n).toString() of a non-negative integer: its decimal digits
RECURSIVE toString(_)
toString(n) ==
  IF n < 10 THEN <<Digits[n + 1]>>
  ELSE Append(toString(n \div 10), Digits[(n % 10) + 1])

RECURSIVE ParseDigits(_, _)
ParseDigits(s, acc) ==
  IF s = << >> \/ ~IsDigit(Head(s)) THEN acc
  ELSE ParseDigits(Tail(s), 10 * acc + DigitValue(Head(s)))

\* parseInt(id, 10) of a string without sign or leading blanks: the number
\* of its leading digits, NaN when it starts with none
parseInt(s) ==
  IF s = << >> \/ ~IsDigit(Head(s)) THEN NaN ELSE Num(ParseDigits(s, 0))

\* .sort((a, b) => b - a) of numbers
RECURSIVE InsertDesc(_, _)
InsertDesc(v, sorted) ==
  IF sorted = << >> THEN <<v>>
  ELSE IF NumLt(Head(sorted), v) THEN <<v>> \o sorted
  ELSE <<Head(sorted)>> \o InsertDesc(v, Tail(sorted))

RECURSIVE SortDesc(_)
SortDesc(seq) ==
  IF seq = << >> THEN << >>
  ELSE InsertDesc(seq[Len(seq)], SortDesc(SubSeq(seq, 1, Len(seq) - 1)))

\* maxId of saveAnnotation: the first of the parsed ids in descending
\* order, << >> (undefined) for an empty list
maxId ==
  LET ids == [i \in 1..Len(props.annotations) |-> parseInt(props.annotations[i].id)]
  IN  IF Len(props.annotations) = 0 THEN << >> ELSE <<Head(SortDesc(ids))>>

\* variant: the new id is the length of the list plus one
newId_length == toString(Len(props.annotations) + 1)

\* the id saveAnnotation gives: maxId ? (maxId + 1).toString() : '1'
newId ==
  IF maxId # << >> /\ ~IsNaN(maxId[1]) /\ maxId[1] # Num(0)
  THEN toString(maxId[1].n + 1)
  ELSE <<"1">>

\* variant: the other annotations keep their active flag
activateAnnotation_keeps(annotation) ==
  LET activated == [annotation EXCEPT !.active = TRUE]
      others == SelectSeq(props.annotations, LAMBDA ann : ann.id # activated.id)
  IN  Append(others, activated)

\* activateAnnotation: the list with the given annotation last and active,
\* every other annotation inactive
activateAnnotation(annotation) ==
  LET activated == [annotation EXCEPT !.active = TRUE]
      others == SelectSeq(props.annotations, LAMBDA ann : ann.id # activated.id)
  IN  Append([i \in 1..Len(others) |-> [others[i] EXCEPT !.active = FALSE]],
             activated)

\* saveAnnotation: the list with the given annotation under a new id, active
\* (the toast shown for the first annotation is not state of the list)
saveAnnotation(annotation) ==
  activateAnnotation([annotation EXCEPT !.id = newId])

updateAnnotation(annotation) ==
  Append(SelectSeq(props.annotations, LAMBDA ann : ann.id # annotation.id),
         annotation)

deleteAnnotation(annotation) ==
  SelectSeq(props.annotations, LAMBDA ann : ann.id # annotation.id)

\* toggleTag: the tag of the first active annotation is set, or cleared
\* when it is the tag already; no active annotation, no change
toggleTag(tag) ==
  LET actives == SelectSeq(props.annotations, LAMBDA ann : ann.active)
  IN  IF actives = << >> THEN props.annotations
      ELSE LET activeAnn == Head(actives)
               newTag == IF activeAnn.annotation = tag THEN "" ELSE tag
           IN  Append(SelectSeq(props.annotations, LAMBDA ann : ~ann.active),
                      [activeAnn EXCEPT !.annotation = newTag])

\* render of the host: this.state.annotations.sort((a, b) => a.startTime -
\* b.startTime), in place; equal start times keep their order
RECURSIVE InsertByStartTime(_, _)
InsertByStartTime(a, sorted) ==
  IF sorted = << >> THEN <<a>>
  ELSE IF NumLt(a.startTime, Head(sorted).startTime) THEN <<a>> \o sorted
  ELSE <<Head(sorted)>> \o InsertByStartTime(a, Tail(sorted))

RECURSIVE sortedAnnotations(_)
sortedAnnotations(list) ==
  IF list = << >> THEN << >>
  ELSE InsertByStartTime(list[Len(list)],
                         sortedAnnotations(SubSeq(list, 1, Len(list) - 1)))

\* this.setState({annotations}) of the host and the render that follows:
\* the component receives the sorted list and updates
setAnnotations(annotations) ==
  /\ props' = [props EXCEPT !.annotations = sortedAnnotations(annotations)]
  /\ UNCHANGED <<stateVars, dragVars, canvasWidth, timeAxisWidth, zoomInRun,
                 imageVars>>
  /\ componentDidUpdate(phase, listeners)
  /\ gesture' = Settle(gesture)

\* the annotation of a drag as the component passes it to onAnnotationCreated
Annotation(rectangle) ==
  [id |-> << >>, annotation |-> "",
   startTime |-> rectangle.startTime, endTime |-> rectangle.endTime,
   startFrequency |-> rectangle.startFrequency,
   endFrequency |-> rectangle.endFrequency, active |-> FALSE]

\* the list after the call of props.onAnnotationCreated for the annotations
\* created (none or one)
onAnnotationCreated(created) ==
  IF created # << >> /\ props.onAnnotationCreated = "saveAnnotation"
  THEN sortedAnnotations(saveAnnotation(Annotation(created[1])))
  ELSE props.annotations

\* the list has room for the annotation saveAnnotation would add
StoreHasRoom ==
  \/ props.onAnnotationCreated # "saveAnnotation"
  \/ /\ Len(props.annotations) < MaxAnnotations
     /\ ParseDigits(newId, 0) <= MaxId

(***************************************************************************)
(* Annotation draw state machine                                           *)
(***************************************************************************)
\* the pointer is over the drawing surface
OnSurface(clientX, clientY) ==
  /\ clientX >= bounds.left /\ clientX < bounds.right
  /\ clientY >= bounds.top /\ clientY < bounds.bottom

onStartNewAnnotation(clientX, clientY) ==
  LET newTime == getTimeFromClientX(clientX)
      newFrequency == getFrequencyFromClientY(clientY)
  IN  /\ isDrawing' = TRUE
      /\ drawPxMove' = 0
      /\ drawStartTime' = newTime
      /\ drawStartFrequency' = newFrequency
      /\ newAnnotation' = <<[startTime |-> newTime, endTime |-> newTime,
                             startFrequency |-> newFrequency,
                             endFrequency |-> newFrequency]>>
      /\ componentDidUpdate(phase, listeners)

\* the state no pointer event changes
pointerFrame == <<wrapperWidth, timePxRatio, freqPxRatio, currentParams,
                  currentZoom, spectrograms, canvasWidth, timeAxisWidth,
                  zoomInRun, imageVars>>

PointerDown(clientX, clientY) ==
  /\ phase = "mounted"
  /\ OnSurface(clientX, clientY)
  /\ UNCHANGED <<props, pointerFrame>>
  /\ onStartNewAnnotation(clientX, clientY)
  /\ gesture' = [NoGesture EXCEPT
                   !.phase = "down",
                   !.down = <<getTimeFromClientX(clientX), getFrequencyFromClientY(clientY)>>]
  /\ lastEvent' = Event("pointerdown", 0, << >>)

computeNewAnnotation(clientX, clientY) ==
  LET currentTime == getTimeFromClientX(clientX)
      currentFrequency == getFrequencyFromClientY(clientY)
  IN  [startTime |-> MathMin(currentTime, drawStartTime),
       endTime |-> MathMax(currentTime, drawStartTime),
       startFrequency |-> MathMin(currentFrequency, drawStartFrequency),
       endFrequency |-> MathMax(currentFrequency, drawStartFrequency)]

\* variant: the draft is recomputed one move earlier
onUpdateNewAnnotation_early(clientX, clientY) ==
  IF isDrawing
  THEN /\ drawPxMove' = drawPxMove + 1
       /\ IF drawPxMove' > DrawThreshold - 1
          THEN /\ newAnnotation' = <<computeNewAnnotation(clientX, clientY)>>
               /\ componentDidUpdate(phase, listeners)
          ELSE /\ UNCHANGED newAnnotation
               /\ NoUpdate
       /\ UNCHANGED <<isDrawing, drawStartTime, drawStartFrequency>>
  ELSE /\ UNCHANGED <<dragVars, newAnnotation>>
       /\ NoUpdate

onUpdateNewAnnotation(clientX, clientY) ==
  IF isDrawing
  THEN /\ drawPxMove' = drawPxMove + 1
       /\ IF drawPxMove' > DrawThreshold
          THEN /\ newAnnotation' = <<computeNewAnnotation(clientX, clientY)>>
               /\ componentDidUpdate(phase, listeners)
          ELSE /\ UNCHANGED newAnnotation
               /\ NoUpdate
       /\ UNCHANGED <<isDrawing, drawStartTime, drawStartFrequency>>
  ELSE /\ UNCHANGED <<dragVars, newAnnotation>>
       /\ NoUpdate

\* a pointermove event anywhere on the page
DocPointerMove(clientX, clientY) ==
  /\ phase \in {"mounted", "unmounted"}
  /\ drawPxMove < MaxMoves
  /\ UNCHANGED <<props, pointerFrame>>
  /\ IF "pointermove" \in listeners
     THEN onUpdateNewAnnotation(clientX, clientY)
     ELSE /\ UNCHANGED <<dragVars, newAnnotation>>
          /\ NoUpdate
  /\ gesture' = IF gesture.phase = "down"
                THEN [gesture EXCEPT !.moves = @ + 1]
                ELSE Settle(gesture)
  /\ lastEvent' = Event("pointermove", 0, << >>)

\* variant: the commit test is `>=` instead of `>`
onEndCommits_geq == isDrawing /\ drawPxMove >= DrawThreshold

\* the test of onEndNewAnnotation: the drag is committed
onEndCommits == isDrawing /\ drawPxMove > DrawThreshold

\* the annotations onEndNewAnnotation passes to onAnnotationCreated
onEndNewAnnotationCreated(clientX, clientY) ==
  IF onEndCommits THEN <<computeNewAnnotation(clientX, clientY)>> ELSE << >>

\* variant: a pointer-up with no drag in progress starts one
onEndNewAnnotation_toggles(clientX, clientY) ==
  /\ IF onEndCommits
     THEN /\ newAnnotation' = << >>
          /\ componentDidUpdate(phase, listeners)
     ELSE /\ UNCHANGED newAnnotation
          /\ NoUpdate
  /\ isDrawing' = ~isDrawing
  /\ drawPxMove' = 0
  /\ UNCHANGED <<drawStartTime, drawStartFrequency>>

\* onEndNewAnnotation: commits a drag above the threshold, ends the drag
onEndNewAnnotation(clientX, clientY) ==
  /\ IF onEndCommits
     THEN /\ newAnnotation' = << >>
          /\ componentDidUpdate(phase, listeners)
     ELSE /\ UNCHANGED newAnnotation
          /\ NoUpdate
  /\ isDrawing' = FALSE
  /\ drawPxMove' = 0
  /\ UNCHANGED <<drawStartTime, drawStartFrequency>>

\* a pointerup event anywhere on the page
DocPointerUp(clientX, clientY) ==
  /\ phase \in {"mounted", "unmounted"}
  /\ UNCHANGED pointerFrame
  /\ LET created == IF "pointerup" \in listeners
                    THEN onEndNewAnnotationCreated(clientX, clientY)
                    ELSE << >>
     IN  /\ created # << >> => StoreHasRoom
         /\ props' = [props EXCEPT !.annotations = onAnnotationCreated(created)]
         /\ gesture' =
           [Settle(gesture) EXCEPT
              !.calls = @ + Len(created),
              !.created = IF created = << >> THEN @ ELSE created,
              !.up = IF gesture.phase = "down"
                     THEN <<getTimeFromClientX(clientX), getFrequencyFromClientY(clientY)>>
                     ELSE @,
              !.upPx = IF gesture.phase = "down"
                       THEN <<timeOffset(clientX), frequencyOffset(clientY)>>
                       ELSE @,
              !.phase = IF @ = "down" THEN "up" ELSE @]
  /\ IF "pointerup" \in listeners
     THEN onEndNewAnnotation(clientX, clientY)
     ELSE /\ UNCHANGED <<dragVars, newAnnotation>>
          /\ NoUpdate
  /\ lastEvent' = Event("pointerup", 0, << >>)

\* variant: the time of clientX without the offset of the surface
seekTo_page(clientX) == NumDiv(Num(clientX), timePxRatio)

\* the time seekTo passes to onSeek
seekTo(clientX) == getTimeFromClientX(clientX)

\* the click event the browser delivers to the surface after a pointer-up
\* on it, at the position of the pointer-up
Click(clientX, clientY) ==
  /\ phase = "mounted"
  /\ OnSurface(clientX, clientY)
  /\ gesture.phase = "up"
  /\ gesture.upPx = <<timeOffset(clientX), frequencyOffset(clientY)>>
  /\ UNCHANGED <<props, pointerFrame>>
  /\ UNCHANGED <<dragVars, newAnnotation>>
  /\ NoUpdate
  /\ gesture' = [gesture EXCEPT !.phase = "clicked",
                                !.seeks = @ + 1,
                                !.seekTime = seekTo(clientX)]
  /\ lastEvent' = Event("click", 0, << >>)

(***************************************************************************)
(* Image loads and re-renders by the host                                  *)
(***************************************************************************)
\* the image of a tile has loaded: its onload handler is renderCanvas, which
\* runs outside any update of the component; the canvas ref is null when
\* the component is not mounted
ImageLoad(level, tile) ==
  /\ level \in 1..Len(spectrograms)
  /\ tile \in 1..Len(spectrograms[level].images)
  /\ <<level, tile>> \notin imagesLoaded \cup imagesFailed
  /\ imagesLoaded' = imagesLoaded \cup {<<level, tile>>}
  /\ UNCHANGED <<imagesFailed, brokenImageThrows, props, stateVars, dragVars,
                 canvasWidth, timeAxisWidth, zoomInRun, phase, listeners, timeAxis>>
  /\ IF phase = "mounted"
     THEN LET calls == drawImageCalls(spectrograms, currentZoom, timePxRatio, imagesLoaded')
          IN  /\ drawnTiles' = callsMade(calls)
              /\ IF throwsAt(calls) = 0
                 THEN /\ drawnDraft' = renderCanvas(newAnnotation, timePxRatio, freqPxRatio)
                      /\ raised' = "none"
                 ELSE /\ drawnDraft' = << >>
                      /\ raised' = "InvalidStateError"
     ELSE /\ UNCHANGED <<drawnDraft, drawnTiles>>
          /\ raised' = "TypeError"
  /\ gesture' = Settle(gesture)
  /\ lastEvent' = Event("load", <<level, tile>>, << >>)

\* the load of the image of a tile has failed: no handler is registered
ImageError(level, tile) ==
  /\ level \in 1..Len(spectrograms)
  /\ tile \in 1..Len(spectrograms[level].images)
  /\ <<level, tile>> \notin imagesLoaded \cup imagesFailed
  /\ imagesFailed' = imagesFailed \cup {<<level, tile>>}
  /\ UNCHANGED <<imagesLoaded, brokenImageThrows, props, stateVars, dragVars,
                 canvasWidth, timeAxisWidth, zoomInRun>>
  /\ NoUpdate
  /\ gesture' = Settle(gesture)
  /\ lastEvent' = Event("error", <<level, tile>>, << >>)

\* the host renders the component again (new currentTime, annotations)
Rerender ==
  /\ phase = "mounted"
  /\ UNCHANGED <<props, stateVars, dragVars, canvasWidth, timeAxisWidth,
                 zoomInRun, imageVars>>
  /\ componentDidUpdate(phase, listeners)
  /\ gesture' = Settle(gesture)
  /\ lastEvent' = Event("rerender", 0, << >>)

\* the tiles <<level, index>> of the pyramid
Tiles ==
  {t \in (1..Len(spectrograms)) \X (1..Pow2(MaxK - 1)) :
     t[2] <= Len(spectrograms[t[1]].images)}

(***************************************************************************)
(* Events of the regions, the list and the tag buttons                     *)
(***************************************************************************)
\* a click on the region or on the row of annotation i of the list:
\* activateAnnotation with that annotation
AnnotationSelected(i) ==
  /\ phase = "mounted"
  /\ i \in 1..Len(props.annotations)
  /\ setAnnotations(activateAnnotation(props.annotations[i]))
  /\ lastEvent' = Event("selected", props.annotations[i].id, << >>)

\* the region of annotation i was moved to the given rectangle:
\* updateAnnotation with its annotation at the new bounds
AnnotationUpdated(i, rectangle) ==
  /\ phase = "mounted"
  /\ i \in 1..Len(props.annotations)
  /\ setAnnotations(updateAnnotation(
       [props.annotations[i] EXCEPT
          !.startTime = rectangle.startTime, !.endTime = rectangle.endTime,
          !.startFrequency = rectangle.startFrequency,
          !.endFrequency = rectangle.endFrequency]))
  /\ lastEvent' = Event("updated", props.annotations[i].id, << >>)

\* the region of annotation i was closed: deleteAnnotation
AnnotationDeleted(i) ==
  /\ phase = "mounted"
  /\ i \in 1..Len(props.annotations)
  /\ setAnnotations(deleteAnnotation(props.annotations[i]))
  /\ lastEvent' = Event("deleted", props.annotations[i].id, << >>)

\* a click on a tag button; the buttons are shown for the active annotation
TagClicked(tag) ==
  /\ phase = "mounted"
  /\ \E i \in 1..Len(props.annotations) : props.annotations[i].active
  /\ setAnnotations(toggleTag(tag))
  /\ lastEvent' = Event("tag", tag, << >>)

(***************************************************************************)
(* Specifications                                                          *)
(***************************************************************************)
\* the surface with its pointer gestures and zoom controls
Next ==
  \/ componentDidMount
  \/ componentWillUnmount
  \/ \E direction \in {1, -1} : ZoomButton(direction)
  \/ \E deltaY \in WheelDeltas : Wheel(deltaY)
  \/ \E p \in PointerPositions : PointerDown(p[1], p[2])
  \/ \E p \in PointerPositions : DocPointerMove(p[1], p[2])
  \/ \E p \in PointerPositions : DocPointerUp(p[1], p[2])
  \/ \E p \in PointerPositions : Click(p[1], p[2])

Spec == Init /\ [][Next]_vars

\* two resolutions, of two levels and of one, in both kinds of browser
RenderChoices == {<<Conf(1024, 3), Conf(2048, 1)>>}

\* recordings of 45 s and of 55 s: 1813 / 55 is a quotient whose double
\* lies below it
RenderDurations == {45, 55}

InitRender == Constructed(RenderDurations, RenderChoices, BOOLEAN)

\* the renderer with image loads, zoom buttons and re-renders by the host
NextRender ==
  \/ componentDidMount
  \/ componentWillUnmount
  \/ \E direction \in {1, -1} : ZoomButton(direction)
  \/ \E t \in Tiles : ImageLoad(t[1], t[2])
  \/ \E t \in Tiles : ImageError(t[1], t[2])
  \/ Rerender

SpecRender == InitRender /\ [][NextRender]_vars

\* durations whose visible part meets the limits 60, 120 and 240 of the
\* time axis at some zoom factor
AxisDurations == {45, 90, 200, 300, 480}

\* a resolution of five levels, one of two, and resolutions whose first URL
\* does not have the form of a tile URL
ZoomChoices ==
  {<<Conf(1024, 31)>>, <<Conf(1024, 3)>>}
    \cup {<<ConfUrl(1024, 3, url)>> : url \in OtherUrls}

InitZoom == Constructed(AxisDurations, ZoomChoices, {TRUE})

\* the builder and the zoom controls
NextZoom ==
  \/ componentDidMount
  \/ componentWillUnmount
  \/ \E direction \in {1, -1} : ZoomButton(direction)
  \/ \E deltaY \in WheelDeltas : Wheel(deltaY)

SpecZoom == InitZoom /\ [][NextZoom]_vars

\* a drag from one point of the surface to another, the tag of the task,
\* and the rectangles the regions are moved to: that of the drag and a
\* later one
DragStart == <<135, 380>>
DragEnd == <<1035, 208>>
AnnotationTags == {"whale"}
RegionRectangles ==
  {[startTime |-> MathMin(getTimeFromClientX(p[1]), getTimeFromClientX(q[1])),
    endTime |-> MathMax(getTimeFromClientX(p[1]), getTimeFromClientX(q[1])),
    startFrequency |-> MathMin(getFrequencyFromClientY(p[2]), getFrequencyFromClientY(q[2])),
    endFrequency |-> MathMax(getFrequencyFromClientY(p[2]), getFrequencyFromClientY(q[2]))] :
     p \in {DragStart, DragEnd}, q \in {DragEnd}}

InitStore == ConstructedIn({"saveAnnotation"}, Durations, {<<Conf(1024, 1)>>}, {TRUE})

\* the surface under the annotator, whose onAnnotationCreated is
\* saveAnnotation: drags, regions, list and tag buttons
NextStore ==
  \/ componentDidMount
  \/ PointerDown(DragStart[1], DragStart[2])
  \/ DocPointerMove(DragEnd[1], DragEnd[2])
  \/ DocPointerUp(DragEnd[1], DragEnd[2])
  \/ \E i \in 1..MaxAnnotations : AnnotationSelected(i)
  \/ \E i \in 1..MaxAnnotations : \E r \in RegionRectangles : AnnotationUpdated(i, r)
  \/ \E i \in 1..MaxAnnotations : AnnotationDeleted(i)
  \/ \E tag \in AnnotationTags : TagClicked(tag)

SpecStore == InitStore /\ [][NextStore]_vars

(***************************************************************************)
(* Properties                                                              *)
(***************************************************************************)
Mounted == phase = "mounted"

\* the rectangle spanned by two points <<time, frequency>>
Rectangle(p, q) ==
  [startTime |-> MathMin(p[1], q[1]), endTime |-> MathMax(p[1], q[1]),
   startFrequency |-> MathMin(p[2], q[2]), endFrequency |-> MathMax(p[2], q[2])]

ZeroRectangle(p) == Rectangle(p, p)

\* C1 (as stated): a gesture of pointer-down, k pointer-moves and pointer-up
\* calls onAnnotationCreated never if k <= 3 and exactly once if k > 3.
C1_Claim ==
  gesture.phase = "up" =>
    /\ gesture.moves <= 3 => gesture.calls = 0
    /\ gesture.moves > 3 => gesture.calls = 1

\* C1 (amended): a gesture of pointer-down, k pointer-moves and pointer-up
\* calls onAnnotationCreated never if k <= 2 and exactly once if k > 2.
C1_Amended ==
  gesture.phase = "up" =>
    /\ gesture.moves <= 2 => gesture.calls = 0
    /\ gesture.moves > 2 => gesture.calls = 1

\* a gesture of exactly three moves has ended and created one annotation
C1_Witness ==
  /\ gesture.phase = "up"
  /\ gesture.moves = 3
  /\ gesture.calls = 1

\* C2: a draft annotation always has startTime <= endTime and startFrequency
\* <= endFrequency, and the annotation passed to onAnnotationCreated is the
\* min/max rectangle of the pointer-down point and the pointer-up point.
C2_Claim ==
  /\ newAnnotation # << >> =>
       /\ NumLeq(newAnnotation[1].startTime, newAnnotation[1].endTime)
       /\ NumLeq(newAnnotation[1].startFrequency, newAnnotation[1].endFrequency)
  /\ (gesture.phase = "up" /\ gesture.created # << >>) =>
       /\ gesture.created[1] = Rectangle(gesture.down, gesture.up)
       /\ NumLeq(gesture.created[1].startTime, gesture.created[1].endTime)
       /\ NumLeq(gesture.created[1].startFrequency, gesture.created[1].endFrequency)

\* the 0-based index of currentZoom among the ascending zoom factors
ZoomIdx == FindIndex(zoomLevels, currentZoom)

\* the highest index zoom(+1) moves to
TopIdx == IF Len(zoomLevels) - 1 < 4 THEN Len(zoomLevels) - 1 ELSE 4

ZoomUnchanged == UNCHANGED <<currentZoom, timePxRatio, canvasWidth, timeAxisWidth>>

\* C3: after any zoom requests currentZoom is one of the zoom factors of the
\* active resolution, however many levels it has; zoom(+1) at the highest
\* reachable level and zoom(-1) at index 0 change nothing.
C3_Claim ==
  /\ [](Mounted => /\ currentZoom # Undefined
                   /\ zoomLevels # << >> => ZoomIdx >= 0)
  /\ [][(Mounted /\ lastEvent'.zoomCalls = <<1>> /\ ZoomIdx = TopIdx) => ZoomUnchanged]_vars
  /\ [][(Mounted /\ lastEvent'.zoomCalls = <<-1>> /\ ZoomIdx = 0) => ZoomUnchanged]_vars

\* C4: with at least five zoom levels, r consecutive zoom(+1) requests from
\* index 0 lead to index min(r, 4): five lead to index 4, a sixth changes
\* nothing; no index above 4 is reached; zoom(-1) at index 0 changes nothing.
C4_Theorem ==
  /\ []((Mounted /\ Len(zoomLevels) >= 5) =>
          /\ ZoomIdx \in 0..4
          /\ zoomInRun >= 0 => ZoomIdx = (IF zoomInRun < 4 THEN zoomInRun ELSE 4))
  /\ [][(Mounted /\ Len(zoomLevels) >= 5 /\ lastEvent'.zoomCalls = <<1>> /\ ZoomIdx = 4)
          => ZoomUnchanged]_vars
  /\ [][(Mounted /\ Len(zoomLevels) >= 5 /\ lastEvent'.zoomCalls = <<-1>> /\ ZoomIdx = 0)
          => ZoomUnchanged]_vars

\* six consecutive zoom(+1) requests were made from index 0 of a resolution
\* of more than five levels
C4_Witness ==
  /\ Mounted
  /\ Len(zoomLevels) > 5
  /\ zoomInRun = 6
  /\ currentZoom = 16

\* C5: timePxRatio = baseWidth * currentZoom / duration, the width of the
\* drawing surface = baseWidth * currentZoom, and freqPxRatio = surface
\* height / frequencyRange, in every state.
C5_Claim ==
  /\ NumEq(timePxRatio,
           NumDiv(NumMul(Num(CANVAS_WIDTH), ZoomNum(currentZoom)), Num(props.duration)))
  /\ NumEq(Num(canvasWidth), NumMul(Num(CANVAS_WIDTH), ZoomNum(currentZoom)))
  /\ NumEq(freqPxRatio, NumDiv(Num(CANVAS_HEIGHT), Num(props.frequencyRange)))

\* C6 (as stated): a wheel event of negative deltaY requests zoom(-1), of
\* positive deltaY zoom(+1), once, and of zero deltaY nothing.
C6_Claim ==
  lastEvent.type = "wheel" =>
    /\ lastEvent.arg < 0 => lastEvent.zoomCalls = <<-1>>
    /\ lastEvent.arg > 0 => lastEvent.zoomCalls = <<1>>
    /\ lastEvent.arg = 0 => lastEvent.zoomCalls = << >>

\* C6 (amended): a wheel event of negative deltaY requests zoom(+1) once and
\* moves one level up, of positive deltaY requests zoom(-1) once and moves
\* one level down, whatever the magnitude; zero deltaY changes no zoom level.
C6_Amended ==
  /\ [](lastEvent.type = "wheel" =>
          /\ lastEvent.arg < 0 => lastEvent.zoomCalls = <<1>>
          /\ lastEvent.arg > 0 => lastEvent.zoomCalls = <<-1>>
          /\ lastEvent.arg = 0 => lastEvent.zoomCalls = << >>)
  /\ [][lastEvent'.type = "wheel" =>
          /\ (lastEvent'.arg < 0 /\ ZoomIdx >= 0 /\ ZoomIdx < TopIdx)
               => currentZoom' = zoomLevels[ZoomIdx + 2]
          /\ (lastEvent'.arg > 0 /\ ZoomIdx > 0)
               => currentZoom' = zoomLevels[ZoomIdx]
          /\ lastEvent'.arg = 0 => ZoomUnchanged]_vars

\* a wheel event of deltaY -100 moved the zoom from factor 1 to factor 2
C6_Witness ==
  /\ lastEvent.type = "wheel"
  /\ lastEvent.arg = -100
  /\ zoomInRun = 1
  /\ currentZoom = 2

\* C7: after every pointer-up that ends a drag, committed or discarded,
\* isDrawing is false, the movement counter is 0 and the draft is absent.
C7_Claim ==
  gesture.phase = "up" =>
    /\ isDrawing = FALSE
    /\ drawPxMove = 0
    /\ newAnnotation = << >>

\* a pointer-move of an ongoing gesture
GestureMove == gesture.phase = "down" /\ gesture'.moves = gesture.moves + 1

SizedDraft(draft) ==
  /\ draft # << >>
  /\ \/ draft[1].startTime # draft[1].endTime
     \/ draft[1].startFrequency # draft[1].endFrequency

\* C8 (as stated): a pointer-move recomputes the draft only when the counter
\* it incremented exceeds 3; on the first three moves the draft stays the
\* zero-size rectangle at the down point and no sized draft is drawn.
C8_Claim ==
  [][GestureMove =>
       /\ newAnnotation' # newAnnotation => drawPxMove' > 3
       /\ gesture'.moves <= 3 =>
            /\ newAnnotation' = <<ZeroRectangle(gesture.down)>>
            /\ UNCHANGED drawnDraft]_vars

\* C8 (amended): a pointer-move recomputes the draft only when the counter
\* it incremented exceeds 2; on the first two moves the draft stays the
\* zero-size rectangle at the down point and nothing is redrawn.
C8_Amended ==
  [][GestureMove =>
       /\ newAnnotation' # newAnnotation => drawPxMove' > 2
       /\ gesture'.moves <= 2 =>
            /\ newAnnotation' = <<ZeroRectangle(gesture.down)>>
            /\ UNCHANGED drawnDraft]_vars

\* the third move of a gesture has given the draft a size
C8_Witness ==
  /\ gesture.phase = "down"
  /\ gesture.moves = 3
  /\ drawPxMove = 3
  /\ SizedDraft(newAnnotation)

\* C9: while mounted a pointer-up anywhere on the page ends the drag, with
\* coordinates clamped to the surface; after unmount pointer-move and
\* pointer-up change no state and call onAnnotationCreated never.
C9_Theorem ==
  /\ [][(Mounted /\ lastEvent'.type = "pointerup") =>
          /\ isDrawing' = FALSE
          /\ drawPxMove' = 0
          /\ gesture.phase = "down" =>
               /\ gesture'.upPx[1] \in 0..canvasWidth
               /\ gesture'.upPx[2] \in 0..CANVAS_HEIGHT
               /\ gesture'.up = <<NumDiv(Num(gesture'.upPx[1]), timePxRatio),
                                  NumAdd(Num(props.startFrequency),
                                         NumDiv(Num(gesture'.upPx[2]), freqPxRatio))>>
               /\ gesture'.calls = 1 =>
                    gesture'.created = <<Rectangle(gesture.down, gesture'.up)>>]_vars
  /\ [][(phase = "unmounted" /\ lastEvent'.type \in {"pointermove", "pointerup"}) =>
          /\ UNCHANGED <<stateVars, dragVars, canvasWidth, timeAxisWidth,
                         drawnDraft, listeners, phase>>
          /\ gesture'.calls = 0
          /\ gesture'.created = << >>]_vars

\* a pointer-up arrived after the component was unmounted in the middle of a
\* drag that had passed the threshold
C9_Witness ==
  /\ phase = "unmounted"
  /\ lastEvent.type = "pointerup"
  /\ isDrawing
  /\ drawPxMove = 3

\* the levels built for the resolution of a configuration
LevelsOf(conf) ==
  SelectSeq(spectrograms, LAMBDA details :
    /\ details.nfft = conf.nfft
    /\ details.winsize = conf.winsize
    /\ details.overlap = conf.overlap)

\* C10: from 2^k - 1 URLs the builder makes k levels of factors 1, 2, ...,
\* 2^(k-1); the level of factor z has z tiles, tile i covers
\* [i*duration/z, (i+1)*duration/z): consecutive tiles share their boundary,
\* the first starts at 0 and the last ends at duration.
C10_Theorem ==
  Mounted =>
    \A c \in 1..Len(props.spectroUrlsParams) :
      LET conf == props.spectroUrlsParams[c]
          levels == LevelsOf(conf)
      IN  \A k \in 1..(MaxK + 1) :
            conf.urls.count = Pow2(k) - 1 =>
              /\ Len(levels) = k
              /\ \A j \in 1..k :
                   LET z == Pow2(j - 1)
                       tiles == levels[j].images
                   IN  /\ levels[j].zoom = z
                       /\ Len(tiles) = z
                       /\ \A i \in 0..(z - 1) :
                            /\ tiles[i + 1].start = Norm(i * props.duration, z)
                            /\ tiles[i + 1].end = Norm((i + 1) * props.duration, z)
                            /\ NumLt(tiles[i + 1].start, tiles[i + 1].end)
                       /\ \A i \in 1..(z - 1) : tiles[i].end = tiles[i + 1].start
                       /\ tiles[1].start = Num(0)
                       /\ tiles[z].end = Num(props.duration)

\* the deepest pyramid was built: MaxK levels from 2^MaxK - 1 URLs
C10_Witness ==
  /\ Mounted
  /\ Len(props.spectroUrlsParams) = 1
  /\ props.spectroUrlsParams[1].urls.count = Pow2(MaxK) - 1
  /\ Len(spectrograms) = MaxK
  /\ Len(spectrograms[MaxK].images) = Pow2(MaxK - 1)

\* C11: building the tile pyramid never raises a failure to the host, also
\* for a URL list that is empty or whose length is not 2^k - 1: the
\* component is never torn down by an error of the builder.
C11_Claim == phase # "crashed"

\* the clientX values the coordinate transform is examined at: left of the
\* surface, its left edge, inside it, its right edge at zoom 1, right of it
ClientXs == {30, 35, 135, 1035, 1848, 40035}

\* the clientY values: above the surface, its top edge, inside it, its
\* bottom edge, below it
ClientYs == {75, 80, 208, 380, 592, 680}

\* C13: left of the surface getTimeFromClientX returns 0, right of it the
\* surface width / timePxRatio, and everywhere a time in [0, duration].
C13_Claim ==
  Mounted =>
    \A x \in ClientXs :
      LET t == getTimeFromClientX(x)
      IN  /\ x < bounds.left => NumEq(t, Num(0))
          /\ x > bounds.right => NumEq(t, NumDiv(Num(canvasWidth), timePxRatio))
          /\ NumLeq(Num(0), t)
          /\ NumLeq(t, Num(props.duration))

\* C14: at or above the top of the surface getFrequencyFromClientY returns
\* startFrequency + surface height / freqPxRatio, at or below the bottom
\* startFrequency, and everywhere a frequency in [startFrequency,
\* startFrequency + frequencyRange]; so are the two points of a gesture.
C14_Theorem ==
  Mounted =>
    /\ \A y \in ClientYs :
         LET f == getFrequencyFromClientY(y)
         IN  /\ y <= bounds.top =>
                  f = NumAdd(Num(props.startFrequency),
                             NumDiv(Num(CANVAS_HEIGHT), freqPxRatio))
             /\ y >= bounds.bottom => f = Num(props.startFrequency)
             /\ NumLeq(Num(props.startFrequency), f)
             /\ NumLeq(f, Num(props.startFrequency + props.frequencyRange))
    /\ gesture.phase = "up" =>
         /\ NumLeq(Num(props.startFrequency), gesture.up[2])
         /\ NumLeq(gesture.up[2], Num(props.startFrequency + props.frequencyRange))

\* a gesture ended above the top of the surface, at the highest frequency
C14_Witness ==
  /\ Mounted
  /\ gesture.phase = "up"
  /\ gesture.upPx[2] = CANVAS_HEIGHT
  /\ gesture.up[2] = Num(props.startFrequency + props.frequencyRange)

C12_Theorem ==
  \A c \in 1..Len(props.spectroUrlsParams) :
    LET conf == props.spectroUrlsParams[c]
        levels == LevelsOf(conf)
        nbZooms == MathLog2(conf.urls.count + 1)
    IN  (phase # "constructed" /\ match(conf.urls.first) = << >>) =>
          /\ phase # "crashed"
          /\ Len(levels) = nbZooms
          /\ levels = [j \in 1..nbZooms |->
                         [ConfDetails([conf EXCEPT !.urls.first = TileUrl],
                                      props.duration)[j]
                            EXCEPT !.urlPrefix = << >>,
                                   !.urlFileName = << >>,
                                   !.urlFileExtension = << >>]]
          /\ \A j \in 1..nbZooms :
               /\ levels[j].zoom = Pow2(j - 1)
               /\ Len(levels[j].images) = Pow2(j - 1)
               /\ \A i \in 1..Pow2(j - 1) :
                    /\ levels[j].images[i].start = Norm((i - 1) * props.duration, Pow2(j - 1))
                    /\ levels[j].images[i].end = Norm(i * props.duration, Pow2(j - 1))

\* the two levels of a configuration of three URLs whose first URL has no
\* directory were built
C12_Witness ==
  /\ Mounted
  /\ props.spectroUrlsParams[1].urls.first[1] = "a"
  /\ match(props.spectroUrlsParams[1].urls.first) = << >>
  /\ Len(spectrograms) = 2
  /\ spectrograms[2].urlPrefix = << >>
  /\ Len(spectrograms[2].images) = 2

\* C16: the time axis chooses its steps from the visible duration d =
\* baseWidth / timePxRatio: d <= 60 gives (1,5), 60 < d <= 120 gives (2,5),
\* 120 < d <= 240 gives (4,5), d > 240 gives (10,6); so 45 gives (1,5), 90
\* gives (2,5), 200 gives (4,5) and 300 gives (10,6).
C16_Theorem ==
  /\ Mounted => timeAxis # << >>
  /\ timeAxis # << >> =>
       LET d == timeAxis[1].durationOnScreen
           steps == <<timeAxis[1].step, timeAxis[1].bigStep>>
       IN  /\ d = NumDiv(Num(CANVAS_WIDTH), timePxRatio)
           /\ NumLeq(d, Num(60)) => steps = <<1, 5>>
           /\ (NumLt(Num(60), d) /\ NumLeq(d, Num(120))) => steps = <<2, 5>>
           /\ (NumLt(Num(120), d) /\ NumLeq(d, Num(240))) => steps = <<4, 5>>
           /\ NumLt(Num(240), d) => steps = <<10, 6>>
           /\ d = Num(45) => steps = <<1, 5>>
           /\ d = Num(90) => steps = <<2, 5>>
           /\ d = Num(200) => steps = <<4, 5>>
           /\ d = Num(300) => steps = <<10, 6>>

\* at zoom factor 4 of a recording of 480 s the visible duration is 120 s,
\* the upper limit of the steps (2,5)
C16_Witness ==
  /\ Mounted
  /\ props.duration = 480
  /\ currentZoom = 4
  /\ timeAxis = <<[durationOnScreen |-> Num(120), step |-> 2, bigStep |-> 5]>>

\* the tiles the last redraw painted: those passed to drawImage with a
\* loaded image
Painted ==
  {<<drawnTiles[k].level, drawnTiles[k].tile>> :
     k \in {n \in 1..Len(drawnTiles) : drawnTiles[n].image = "loaded"}}

\* C17: a redraw passes a tile to drawImage only if its image has finished
\* loading, and paints no tile whose image load failed, in any redraw.
C17_Theorem ==
  /\ \A k \in 1..Len(drawnTiles) :
       /\ drawnTiles[k].image # "loading"
       /\ <<drawnTiles[k].level, drawnTiles[k].tile>> \in imagesLoaded \cup imagesFailed
  /\ Painted \subseteq imagesLoaded
  /\ Painted \cap imagesFailed = {}

\* a re-render after the failure of the first tile of factor 2 passed both
\* tiles of that level to drawImage and painted the second alone
C17_Witness ==
  /\ Mounted
  /\ lastEvent.type = "rerender"
  /\ currentZoom = 2
  /\ <<2, 1>> \in imagesFailed
  /\ Len(drawnTiles) = 2
  /\ Painted = {<<2, 2>>}

\* C18: the click that follows a pointer-down and a pointer-up on the
\* surface calls onSeek once, with the time of the clicked x; without a
\* pointer-move onAnnotationCreated is not called; the click changes
\* neither the drag fields nor the draft.
C18_Theorem ==
  /\ [](lastEvent.type = "click" =>
          /\ gesture.phase = "clicked"
          /\ gesture.seeks = 1
          /\ gesture.seekTime = NumDiv(Num(gesture.upPx[1]), timePxRatio)
          /\ gesture.seekTime = gesture.up[1]
          /\ gesture.moves = 0 => (gesture.calls = 0 /\ gesture.created = << >>)
          /\ isDrawing = FALSE
          /\ drawPxMove = 0)
  /\ [](gesture.phase # "clicked" => gesture.seeks = 0)
  /\ [][lastEvent'.type = "click" =>
          /\ UNCHANGED <<stateVars, dragVars, drawnDraft>>
          /\ gesture'.calls = gesture.calls]_vars

\* a click without pointer-move, 100 pixels from the left edge at zoom
\* factor 1, asked for one seek and created no annotation
C18_Witness ==
  /\ lastEvent.type = "click"
  /\ gesture.moves = 0
  /\ gesture.seeks = 1
  /\ gesture.calls = 0
  /\ currentZoom = 1
  /\ gesture.seekTime = NumDiv(Num(100), timePxRatio)

\* C19: a zoom request changes only currentZoom, timePxRatio and the widths
\* of the surface and of the time axis: freqPxRatio, the active resolution,
\* the pyramid, the draft and the drag fields are unchanged and no callback
\* of the host is called, also in the middle of a drag.
C19_Theorem ==
  [][lastEvent'.zoomCalls # << >> =>
       /\ UNCHANGED <<props, wrapperWidth, freqPxRatio, currentParams, spectrograms,
                      newAnnotation, isDrawing, drawPxMove, drawStartTime,
                      drawStartFrequency, imagesLoaded, imagesFailed, listeners>>
       /\ gesture' = Settle(gesture)]_vars

\* a wheel event zoomed to factor 2 in the middle of a drag of three moves
C19_Witness ==
  /\ lastEvent.type = "wheel"
  /\ lastEvent.zoomCalls = <<1>>
  /\ currentZoom = 2
  /\ isDrawing
  /\ drawPxMove = 3
  /\ gesture.phase = "down"
  /\ SizedDraft(newAnnotation)

\* C20: every redraw passes to drawImage only tiles of the level of the
\* active resolution whose factor is currentZoom; the redraw made by the
\* load of a tile of another level draws no tile of that level.
C20_Theorem ==
  /\ [](\A k \in 1..Len(drawnTiles) :
          /\ SameParams(spectrograms[drawnTiles[k].level])
          /\ spectrograms[drawnTiles[k].level].zoom = currentZoom)
  /\ [][(lastEvent'.type = "load" /\ Mounted) =>
          LET level == lastEvent'.arg[1]
          IN  (~SameParams(spectrograms[level]) \/ spectrograms[level].zoom # currentZoom) =>
                \A k \in 1..Len(drawnTiles') : drawnTiles'[k].level # level]_vars

\* at zoom factor 2 the tile of factor 1 finished loading and the redraw
\* painted the first tile of factor 2 alone
C20_Witness ==
  /\ Mounted
  /\ lastEvent.type = "load"
  /\ lastEvent.arg = <<1, 1>>
  /\ currentZoom = 2
  /\ Painted = {<<2, 1>>}

\* C21: the load of an image that completes after the component was
\* unmounted raises no error and draws nothing.
C21_Claim ==
  /\ [](lastEvent.type = "load" /\ phase = "unmounted" => raised = "none")
  /\ [][(lastEvent'.type = "load" /\ phase = "unmounted")
          => UNCHANGED <<drawnTiles, drawnDraft>>]_vars

\* C22: a redraw places tile i of the active level at x = i * baseWidth
\* with width baseWidth; the tiles of a level that are all loaded cover the
\* surface from 0 to its width without gap or overlap.
C22_Claim ==
  Mounted =>
    /\ \A k \in 1..Len(drawnTiles) :
         /\ drawnTiles[k].x = Num((drawnTiles[k].tile - 1) * CANVAS_WIDTH)
         /\ drawnTiles[k].width = Num(CANVAS_WIDTH)
    /\ (currentZoom # Undefined /\ Cardinality(Painted) = currentZoom) =>
         /\ drawnTiles[1].x = Num(0)
         /\ \A k \in 1..(Len(drawnTiles) - 1) :
              NumAdd(drawnTiles[k].x, drawnTiles[k].width) = drawnTiles[k + 1].x
         /\ NumAdd(drawnTiles[Len(drawnTiles)].x, drawnTiles[Len(drawnTiles)].width)
              = Num(canvasWidth)

\* C23: for every y inside the surface the frequency of y, mapped to a
\* pixel by surface height - frequency * freqPxRatio, is the offset of y
\* from the top of the surface; the draft of a pointer-down is drawn at the
\* y of the pointer.
C23_Claim ==
  Mounted =>
    /\ \A y \in ClientYs :
         (y >= bounds.top /\ y < bounds.bottom) =>
           NumSub(Num(CANVAS_HEIGHT), NumMul(getFrequencyFromClientY(y), freqPxRatio))
             = Num(y - bounds.top)
    /\ lastEvent.type = "pointerdown" =>
         /\ drawnDraft # << >>
         /\ \E p \in PointerPositions :
              /\ OnSurface(p[1], p[2])
              /\ gesture.down[2] = getFrequencyFromClientY(p[2])
              /\ drawnDraft[1].y = Num(p[2] - bounds.top)

\* C24: while no drag is in progress, pointer-move and pointer-up events
\* anywhere on the page change nothing: the draft, the movement counter and
\* the origin of the drag are unchanged and onAnnotationCreated is not
\* called.
C24_Theorem ==
  /\ [](Mounted => (isDrawing <=> gesture.phase = "down"))
  /\ [](~isDrawing => drawPxMove = 0)
  /\ [][(~isDrawing /\ lastEvent'.type \in {"pointermove", "pointerup"}) =>
          /\ UNCHANGED <<stateVars, dragVars, drawnDraft, drawnTiles, canvasWidth,
                         timeAxisWidth, phase, listeners>>
          /\ gesture'.calls = 0
          /\ gesture'.created = << >>]_vars

\* a pointer-up arrived while no drag was in progress and left the draft
\* of the last discarded drag in place
C24_Witness ==
  /\ Mounted
  /\ lastEvent.type = "pointerup"
  /\ gesture.phase = "none"
  /\ ~isDrawing
  /\ drawStartTime # Num(0)
  /\ newAnnotation # << >>

\* the pointer-up about to be delivered commits a drag: saveAnnotation runs
Commits == "pointerup" \in listeners /\ onEndCommits

\* annotation b is annotation a but for its active flag
SameButActive(a, b) == [a EXCEPT !.active = FALSE] = [b EXCEPT !.active = FALSE]

Ids(list) == {list[i].id : i \in 1..Len(list)}

Actives(list) == {i \in 1..Len(list) : list[i].active}

\* C25: in the store, after any sequence of saveAnnotation,
\* updateAnnotation, deleteAnnotation, activateAnnotation and toggleTag the
\* annotations of the list have pairwise distinct ids; the saveAnnotation of
\* a committed drag makes the list one longer, every annotation of the list
\* before is still in it with its id, tag and bounds, and the one added has
\* the bounds of the drag and an id none had.
C25_Theorem ==
  /\ [](\A i, j \in 1..Len(props.annotations) :
          props.annotations[i].id = props.annotations[j].id => i = j)
  /\ [][(lastEvent'.type = "pointerup" /\ Commits) =>
          /\ Len(props'.annotations) = Len(props.annotations) + 1
          /\ \A i \in 1..Len(props.annotations) :
               \E j \in 1..Len(props'.annotations) :
                 SameButActive(props.annotations[i], props'.annotations[j])
          /\ \E j \in 1..Len(props'.annotations) :
               /\ props'.annotations[j].id \notin Ids(props.annotations)
               /\ SameButActive([Annotation(gesture'.created[1]) EXCEPT
                                   !.id = props'.annotations[j].id],
                                props'.annotations[j])]_vars

\* C25 witness: a drag was committed into a list that held an annotation,
\* after an earlier annotation had been deleted: the ids are 2 and 3
C25_Witness ==
  /\ lastEvent.type = "pointerup"
  /\ gesture.phase = "up"
  /\ gesture.calls = 1
  /\ Ids(props.annotations) = {<<"2">>, <<"3">>}

\* C26: in the store, after any sequence of saveAnnotation,
\* updateAnnotation, deleteAnnotation, activateAnnotation and toggleTag at
\* most one annotation is active; right after activateAnnotation the
\* annotation given is the only active one, and right after the
\* saveAnnotation of a committed drag the annotation added is.
C26_Theorem ==
  /\ [](Cardinality(Actives(props.annotations)) <= 1)
  /\ [](lastEvent.type = "selected" =>
          \E i \in 1..Len(props.annotations) :
            /\ props.annotations[i].id = lastEvent.arg
            /\ Actives(props.annotations) = {i})
  /\ [][(lastEvent'.type = "pointerup" /\ Commits) =>
          \E j \in 1..Len(props'.annotations) :
            /\ props'.annotations[j].id \notin Ids(props.annotations)
            /\ Actives(props'.annotations) = {j}]_vars

\* C26 witness: of two annotations the one saved first was selected, the
\* other having been active since its drag
C26_Witness ==
  /\ lastEvent.type = "selected"
  /\ Len(props.annotations) = 2
  /\ lastEvent.arg = <<"1">>
  /\ \E i \in 1..2 : props.annotations[i].id = <<"1">> /\ props.annotations[i].active
  /\ \E i \in 1..2 : props.annotations[i].id = <<"2">> /\ props.annotations[i].annotation = "whale"

====
